---- MODULE Spec2Model ----
(***************************************************************************)
(* Ride lifecycle and seat allocation of Campus_RideShare.                 *)
(*                                                                         *)
(* The model follows src/controllers/rideController.js, which imports the  *)
(* schema and the post-find hooks of src/models/Ride.js.  One ride         *)
(* document is modelled; time is counted in hours.                         *)
(*                                                                         *)
(* Two specifications share the handlers' bodies:                          *)
(*   Spec      every handler runs from its findById to its save() in one   *)
(*             step (requests served one at a time);                       *)
(*   SpecConc  a handler in flight is suspended at its awaits: after the   *)
(*             findById, at the save() of the post hook and at its own     *)
(*             save().  While it is suspended the other requests are       *)
(*             served, each from its findById to its response.             *)
(*                                                                         *)
(* save() is Mongoose's: it sends the modified paths only ($set, and $push *)
(* for an array that was only pushed to), after validating the document    *)
(* against the schema.  A $set of a whole array makes the update           *)
(* conditional on the version key __v read by the handler and increments   *)
(* it; a $push increments it unconditionally; an update of scalar paths    *)
(* touches neither.  A failed condition raises VersionError.               *)
(***************************************************************************)
EXTENDS Integers, Sequences, FiniteSets, TLC

VARIABLES ride, initialSeats, now, res, procs, other, env, chat, room, reading,
          chat2

vars == <<ride, initialSeats, now, res, procs, other, env, chat, room, reading,
          chat2>>

(* The state outside the ride document the ride routes work on: a second   *)
(* ride of the collection, the NODE_ENV of the process, the Chat document  *)
(* of the ride and the sockets in the ride's room.                         *)
aux == <<other, env, chat, room, reading, chat2>>

----------------------------------------------------------------------------
(* Bounds *)

MaxSeats == 2
MaxNow == 6
TickStep == 6
MaxVersion == 3
MaxMessages == 2

----------------------------------------------------------------------------
(* Program constants *)

SIX_HOURS == 6
SEVEN_DAYS == 168
THIRTY_DAYS == 720
JoiMinSeats == 1
JoiMaxSeats == 10
SchemaMinSeats == 0

----------------------------------------------------------------------------
(* The directory (Supabase users table) and the inputs *)

Users == {"u1", "u2", "u3", "u4"}

college_id == [u \in Users |-> IF u = "u4" THEN "c2" ELSE "c1"]

gender == [u \in Users |-> IF u = "u3" THEN "female" ELSE "male"]

Creators == {"u1"}

InvalidDate == -1
DateChoices == {0, 3}
GenderChoices == {"Any", "Male", "Female"}
Procs == {1}

NoRide == [status |-> "none"]
NoUser == "-"
NoDecision == "-"

(* protect: the identity attached to the request.  The select lists id,    *)
(* name, email, college_id and role, so req.user carries no gender.        *)
protect(u) == [id |-> u, collegeId |-> college_id[u], gender |-> "undefined"]

toLowerCase(s) ==
  CASE s = "Any" -> "any"
    [] s = "Male" -> "male"
    [] s = "Female" -> "female"
    [] OTHER -> s

includes(seq, x) == \E i \in 1..Len(seq) : seq[i] = x

filterOut(seq, x) == SelectSeq(seq, LAMBDA y : y # x)

----------------------------------------------------------------------------
(* Responses *)

Resp(s, m) == [status |-> s, message |-> m]

NoResponse == Resp(0, "")
NotFound == Resp(404, "Ride not found")
CrossCollege == Resp(403, "Cross-college access denied")
InvalidState == Resp(400, "Ride is closed")
SelfRequest == Resp(400, "Cannot request your own ride")
AlreadyRequested == Resp(400, "Already requested/confirmed")
GenderMismatch == Resp(403, "This ride is for the preferred gender only.")
RequestSent == Resp(200, "Request sent successfully")
NoPendingRequest == Resp(400, "No pending request to cancel")
RequestCancelled == Resp(200, "Request cancelled successfully")
OnlyCreatorDecide == Resp(403, "Only creator can decide")
NotRequested == Resp(400, "User did not request this ride")
NoSeatsLeft == Resp(400, "No seats available")
Confirmed == Resp(200, "has been confirmed for the ride")
Rejected == Resp(200, "request has been rejected")
InvalidInput == Resp(400, "Invalid date format")
OnlyCreatorUpdate == Resp(403, "Only creator can update time")
TimeUpdated == Resp(200, "Ride time updated")
OnlyCreatorClose == Resp(403, "Only creator can close")
RideClosed == Resp(200, "Ride closed successfully")
RideCreated == Resp(201, "Ride created successfully")
InternalError == Resp(500, "Internal server error")

Request(o, u, t, d, dt) ==
  [op |-> o, user |-> u, target |-> t, decision |-> d, dateTime |-> dt]

NoRequest == Request("-", NoUser, NoUser, NoDecision, InvalidDate)

----------------------------------------------------------------------------
(* The Ride document (src/models/Ride.js) *)

ArrayPaths == {"requests", "confirmedUsers"}

exists(doc) == doc.status # "none"

(* Schema validators that run when a document is created or saved. *)
validate(doc) ==
  /\ doc.availableSeats >= SchemaMinSeats
  /\ doc.preferredGender \in {"Any", "Male", "Female"}
  /\ doc.status \in {"OPEN", "FULL", "CLOSED"}

closeAfter(doc) == doc.dateTime + SIX_HOURS

(* Variant: the hook closes a FULL ride as well. *)
isStale_fullToo(doc, t) == t >= closeAfter(doc) /\ doc.status \in {"OPEN", "FULL"}

isStale(doc, t) == t >= closeAfter(doc) /\ doc.status = "OPEN"

(* Variant: the hook closes the stored ride and leaves the document in     *)
(* hand as fetched.                                                        *)
postFindOne_storedOnly(doc, t) == doc

(* post("findOne"): the document handed to the handler, status already     *)
(* set to CLOSED in memory when the ride is stale.                         *)
postFindOne(doc, t) ==
  IF exists(doc) /\ isStale(doc, t) THEN [doc EXCEPT !.status = "CLOSED"] ELSE doc

(* The update the hook's doc.save() sends: $set of status, no version key. *)
hookUpdate(stored) ==
  IF exists(stored) THEN [stored EXCEPT !.status = "CLOSED"] ELSE stored

(* The update save() sends for a document fetched as base and left as     *)
(* doc2 by the handler, pushed being the array paths it pushed to: $set of *)
(* the paths assigned a value that differs, $push of the pushed items.     *)
setPaths(base, doc2, pushed) ==
  {f \in DOMAIN base \ {"v"} : f \notin pushed /\ doc2[f] # base[f]}

pushedItems(base, doc2, f) == SubSeq(doc2[f], Len(base[f]) + 1, Len(doc2[f]))

NoVersion == -1

(* Mutant: the update never carries the version key. *)
versionWhere_never(base, doc2, pushed) == NoVersion

(* A $set of a whole array puts the version key in the update's filter. *)
versionWhere(base, doc2, pushed) ==
  IF setPaths(base, doc2, pushed) \cap ArrayPaths # {} THEN base.v ELSE NoVersion

(* A $set or a $push of an array increments the version key. *)
versionInc(base, doc2, pushed) ==
  setPaths(base, doc2, pushed) \cap ArrayPaths # {} \/ pushed # {}

delta(base, doc2, pushed) ==
  [set |-> [f \in setPaths(base, doc2, pushed) |-> doc2[f]],
   push |-> [f \in pushed |-> pushedItems(base, doc2, f)],
   where |-> versionWhere(base, doc2, pushed),
   inc |-> versionInc(base, doc2, pushed)]

NoUpdate == [set |-> << >>, push |-> << >>, where |-> NoVersion, inc |-> FALSE]

isEmpty(upd) == DOMAIN upd.set = {} /\ DOMAIN upd.push = {}

(* The store applies an update to the document with the handler's _id. *)
matches(stored, upd) == upd.where = NoVersion \/ stored.v = upd.where

applyUpdate(stored, upd) ==
  [f \in DOMAIN stored |->
     IF f = "v" THEN stored.v + (IF upd.inc THEN 1 ELSE 0)
     ELSE IF f \in DOMAIN upd.set THEN upd.set[f]
     ELSE IF f \in DOMAIN upd.push THEN stored[f] \o upd.push[f]
     ELSE stored[f]]

(* The second half of doc.save(): nothing is sent when nothing was         *)
(* modified; an update that matches no document raises VersionError.       *)
updateOne(stored, upd) ==
  IF isEmpty(upd) THEN [ok |-> TRUE, store |-> stored]
  ELSE IF ~matches(stored, upd) THEN [ok |-> FALSE, store |-> stored]
  ELSE [ok |-> TRUE, store |-> applyUpdate(stored, upd)]

----------------------------------------------------------------------------
(* The handlers' bodies between findById and save()                        *)
(* (src/controllers/rideController.js).  Each gives the response, the      *)
(* document as the handler leaves it and the array paths it pushed to.     *)

Fail(code, doc) == [ok |-> FALSE, code |-> code, doc |-> doc, pushed |-> {}]

Done(code, doc, pushed) == [ok |-> TRUE, code |-> code, doc |-> doc, pushed |-> pushed]

(* Mutant: a request without a gender counts as male. *)
userGender_defaultMale(user) ==
  IF user.gender = "undefined" THEN "male" ELSE toLowerCase(user.gender)

userGender(user) ==
  IF user.gender = "undefined" THEN "any" ELSE toLowerCase(user.gender)

(* Mutant: a closed ride still takes requests. *)
requestRideBody_noClosedCheck(doc, user) ==
  IF ~exists(doc) THEN Fail(NotFound, doc)
  ELSE IF doc.creatorCollegeId # user.collegeId THEN Fail(CrossCollege, doc)
  ELSE IF doc.creatorId = user.id THEN Fail(SelfRequest, doc)
  ELSE IF includes(doc.requests, user.id) \/ includes(doc.confirmedUsers, user.id)
    THEN Fail(AlreadyRequested, doc)
  ELSE IF toLowerCase(doc.preferredGender) # "any"
          /\ toLowerCase(doc.preferredGender) # userGender(user)
    THEN Fail(GenderMismatch, doc)
  ELSE Done(RequestSent,
            [doc EXCEPT !.requests = Append(@, user.id)],
            {"requests"})

(* Mutant: only an OPEN ride takes requests. *)
requestRideBody_openOnly(doc, user) ==
  IF ~exists(doc) THEN Fail(NotFound, doc)
  ELSE IF doc.creatorCollegeId # user.collegeId THEN Fail(CrossCollege, doc)
  ELSE IF doc.status # "OPEN" THEN Fail(InvalidState, doc)
  ELSE IF doc.creatorId = user.id THEN Fail(SelfRequest, doc)
  ELSE IF includes(doc.requests, user.id) \/ includes(doc.confirmedUsers, user.id)
    THEN Fail(AlreadyRequested, doc)
  ELSE IF toLowerCase(doc.preferredGender) # "any"
          /\ toLowerCase(doc.preferredGender) # userGender(user)
    THEN Fail(GenderMismatch, doc)
  ELSE Done(RequestSent,
            [doc EXCEPT !.requests = Append(@, user.id)],
            {"requests"})

(* Mutant: the creator may request a seat on the ride. *)
requestRideBody_noSelfCheck(doc, user) ==
  IF ~exists(doc) THEN Fail(NotFound, doc)
  ELSE IF doc.creatorCollegeId # user.collegeId THEN Fail(CrossCollege, doc)
  ELSE IF doc.status = "CLOSED" THEN Fail(InvalidState, doc)
  ELSE IF includes(doc.requests, user.id) \/ includes(doc.confirmedUsers, user.id)
    THEN Fail(AlreadyRequested, doc)
  ELSE IF toLowerCase(doc.preferredGender) # "any"
          /\ toLowerCase(doc.preferredGender) # userGender(user)
    THEN Fail(GenderMismatch, doc)
  ELSE Done(RequestSent,
            [doc EXCEPT !.requests = Append(@, user.id)],
            {"requests"})

requestRideBody(doc, user) ==
  IF ~exists(doc) THEN Fail(NotFound, doc)
  ELSE IF doc.creatorCollegeId # user.collegeId THEN Fail(CrossCollege, doc)
  ELSE IF doc.status = "CLOSED" THEN Fail(InvalidState, doc)
  ELSE IF doc.creatorId = user.id THEN Fail(SelfRequest, doc)
  ELSE IF includes(doc.requests, user.id) \/ includes(doc.confirmedUsers, user.id)
    THEN Fail(AlreadyRequested, doc)
  ELSE IF toLowerCase(doc.preferredGender) # "any"
          /\ toLowerCase(doc.preferredGender) # userGender(user)
    THEN Fail(GenderMismatch, doc)
  ELSE Done(RequestSent,
            [doc EXCEPT !.requests = Append(@, user.id)],
            {"requests"})

(* Mutant: a confirmed actor may cancel as well and leaves the ride. *)
cancelRequestBody_confirmedToo(doc, user) ==
  IF ~exists(doc) THEN Fail(NotFound, doc)
  ELSE IF ~includes(doc.requests, user.id) /\ ~includes(doc.confirmedUsers, user.id)
    THEN Fail(NoPendingRequest, doc)
  ELSE Done(RequestCancelled,
            [doc EXCEPT !.requests = filterOut(@, user.id),
                        !.confirmedUsers = filterOut(@, user.id)],
            {})

cancelRequestBody(doc, user) ==
  IF ~exists(doc) THEN Fail(NotFound, doc)
  ELSE IF ~includes(doc.requests, user.id) THEN Fail(NoPendingRequest, doc)
  ELSE Done(RequestCancelled,
            [doc EXCEPT !.requests = filterOut(@, user.id)],
            {})

(* Mutant: the guard lets an accept through at zero seats. *)
acceptSeatsCheck_negativeOnly(doc) == doc.availableSeats < 0

acceptSeatsCheck(doc) == doc.availableSeats <= 0

(* Mutant: the accept gives a seat back instead of taking one. *)
acceptMutation_increment(doc, userId) ==
  [doc EXCEPT !.confirmedUsers = Append(@, userId),
              !.requests = filterOut(@, userId),
              !.availableSeats = @ + 1,
              !.expiresAt = doc.dateTime + THIRTY_DAYS]

(* Mutant: the accept that takes the last seat leaves the status as it is. *)
acceptMutation_neverFull(doc, userId) ==
  [doc EXCEPT !.confirmedUsers = Append(@, userId),
              !.requests = filterOut(@, userId),
              !.availableSeats = @ - 1,
              !.expiresAt = doc.dateTime + THIRTY_DAYS]

(* Mutant: the accept keeps the unconfirmed ride's retention. *)
acceptMutation_shortRetention(doc, userId) ==
  [doc EXCEPT !.confirmedUsers = Append(@, userId),
              !.requests = filterOut(@, userId),
              !.availableSeats = @ - 1,
              !.status = IF doc.availableSeats - 1 = 0 THEN "FULL" ELSE @,
              !.expiresAt = doc.dateTime + SEVEN_DAYS]

acceptMutation(doc, userId) ==
  LET seats == doc.availableSeats - 1
  IN [doc EXCEPT !.confirmedUsers = Append(@, userId),
                 !.requests = filterOut(@, userId),
                 !.availableSeats = seats,
                 !.status = IF seats = 0 THEN "FULL" ELSE @,
                 !.expiresAt = doc.dateTime + THIRTY_DAYS]

(* Mutant: the pending request is looked up before the caller is checked. *)
decideRequestBody_requestedFirst(doc, user, userId, decision) ==
  IF ~exists(doc) THEN Fail(NotFound, doc)
  ELSE IF ~includes(doc.requests, userId) THEN Fail(NotRequested, doc)
  ELSE IF doc.creatorId # user.id THEN Fail(OnlyCreatorDecide, doc)
  ELSE IF decision = "reject"
    THEN Done(Rejected, [doc EXCEPT !.requests = filterOut(@, userId)], {})
  ELSE IF acceptSeatsCheck(doc) THEN Fail(NoSeatsLeft, doc)
  ELSE Done(Confirmed, acceptMutation(doc, userId), {"confirmedUsers"})

(* Mutant: a reject gives a seat back. *)
decideRequestBody_rejectFreesSeat(doc, user, userId, decision) ==
  IF ~exists(doc) THEN Fail(NotFound, doc)
  ELSE IF doc.creatorId # user.id THEN Fail(OnlyCreatorDecide, doc)
  ELSE IF ~includes(doc.requests, userId) THEN Fail(NotRequested, doc)
  ELSE IF decision = "reject"
    THEN Done(Rejected,
              [doc EXCEPT !.requests = filterOut(@, userId), !.availableSeats = @ + 1],
              {})
  ELSE IF acceptSeatsCheck(doc) THEN Fail(NoSeatsLeft, doc)
  ELSE Done(Confirmed, acceptMutation(doc, userId), {"confirmedUsers"})

decideRequestBody(doc, user, userId, decision) ==
  IF ~exists(doc) THEN Fail(NotFound, doc)
  ELSE IF doc.creatorId # user.id THEN Fail(OnlyCreatorDecide, doc)
  ELSE IF ~includes(doc.requests, userId) THEN Fail(NotRequested, doc)
  ELSE IF decision = "reject"
    THEN Done(Rejected, [doc EXCEPT !.requests = filterOut(@, userId)], {})
  ELSE IF acceptSeatsCheck(doc) THEN Fail(NoSeatsLeft, doc)
  ELSE Done(Confirmed, acceptMutation(doc, userId), {"confirmedUsers"})

(* Mutant: a rescheduled ride always gets the unconfirmed retention. *)
baseRetention_unconfirmed(doc) == SEVEN_DAYS

baseRetention(doc) == IF Len(doc.confirmedUsers) # 0 THEN THIRTY_DAYS ELSE SEVEN_DAYS

updateRideTimeBody(doc, user, dateTime) ==
  IF dateTime = InvalidDate THEN Fail(InvalidInput, doc)
  ELSE IF ~exists(doc) THEN Fail(NotFound, doc)
  ELSE IF doc.creatorId # user.id THEN Fail(OnlyCreatorUpdate, doc)
  ELSE Done(TimeUpdated,
            [doc EXCEPT !.dateTime = dateTime,
                        !.expiresAt = dateTime + baseRetention(doc)],
            {})

(* Mutant: a ride that is already closed cannot be closed again. *)
closeRideBody_onlyOnce(doc, user) ==
  IF ~exists(doc) THEN Fail(NotFound, doc)
  ELSE IF doc.creatorId # user.id THEN Fail(OnlyCreatorClose, doc)
  ELSE IF doc.status = "CLOSED" THEN Fail(InvalidState, doc)
  ELSE Done(RideClosed, [doc EXCEPT !.status = "CLOSED"], {})

closeRideBody(doc, user) ==
  IF ~exists(doc) THEN Fail(NotFound, doc)
  ELSE IF doc.creatorId # user.id THEN Fail(OnlyCreatorClose, doc)
  ELSE Done(RideClosed, [doc EXCEPT !.status = "CLOSED"], {})

Body(req, doc) ==
  CASE req.op = "requestRide" -> requestRideBody(doc, protect(req.user))
    [] req.op = "cancelRequest" -> cancelRequestBody(doc, protect(req.user))
    [] req.op = "decideRequest" ->
         decideRequestBody(doc, protect(req.user), req.target, req.decision)
    [] req.op = "updateRideTime" ->
         updateRideTimeBody(doc, protect(req.user), req.dateTime)
    [] req.op = "closeRide" -> closeRideBody(doc, protect(req.user))

(* Mutant: an accept is neither guarded by the seat count nor validated.  *)
prepare_unguardedAccept(req, base) ==
  LET plan == IF /\ req.op = "decideRequest"
                 /\ req.decision = "accept"
                 /\ exists(base)
                 /\ Body(req, base).code = NoSeatsLeft
                THEN Done(Confirmed, acceptMutation(base, req.target), {"confirmedUsers"})
                ELSE Body(req, base)
  IN IF ~plan.ok THEN [ok |-> FALSE, code |-> plan.code, upd |-> NoUpdate]
     ELSE [ok |-> TRUE, code |-> plan.code,
           upd |-> delta(base, plan.doc, plan.pushed)]

(* The first half of doc.save(): validation, then the update to send. *)
prepare(req, base) ==
  LET plan == Body(req, base)
  IN IF ~plan.ok THEN [ok |-> FALSE, code |-> plan.code, upd |-> NoUpdate]
     ELSE IF ~validate(plan.doc)
       THEN [ok |-> FALSE, code |-> InternalError, upd |-> NoUpdate]
     ELSE [ok |-> TRUE, code |-> plan.code,
           upd |-> delta(base, plan.doc, plan.pushed)]

(* The update reaches the store and the response is sent: the catch block  *)
(* turns a rejected save() into a 500.                                     *)
Commit(stored, code, upd) ==
  IF updateOne(stored, upd).ok
    THEN [store |-> updateOne(stored, upd).store, code |-> code]
    ELSE [store |-> stored, code |-> InternalError]

----------------------------------------------------------------------------
(* State *)

(* No Chat document exists for the ride. *)
NoChat == [exists |-> FALSE, messages |-> << >>, expiresAt |-> 0]

(* No my-rides query is waiting for its hook. *)
NoRead == [ids |-> << >>, docs |-> << >>, todo |-> << >>]

IdleProc == [pc |-> "idle", req |-> NoRequest, doc |-> NoRide, upd |-> NoUpdate]

Init ==
  /\ ride = NoRide
  /\ initialSeats = 0
  /\ now = 0
  /\ res = NoResponse
  /\ procs = [p \in Procs |-> IdleProc]
  /\ other = NoRide
  /\ env = "undefined"
  /\ chat = NoChat
  /\ room = {}
  /\ reading = NoRead
  /\ chat2 = NoChat

ValidationFailed == Resp(400, "Validation error")

(* Mutant: any capacity passes the request schema. *)
createRideSchema_unbounded(availableSeats) == TRUE

createRideSchema(availableSeats) ==
  availableSeats >= JoiMinSeats /\ availableSeats <= JoiMaxSeats

newRide(user, availableSeats, preferredGender, dateTime, allowChat) ==
  [creatorId |-> user.id,
   creatorCollegeId |-> user.collegeId,
   availableSeats |-> availableSeats,
   preferredGender |-> preferredGender,
   dateTime |-> dateTime,
   allowChat |-> allowChat,
   requests |-> << >>,
   confirmedUsers |-> << >>,
   status |-> "OPEN",
   expiresAt |-> dateTime + SEVEN_DAYS,
   v |-> 0]

createRide(u, availableSeats, preferredGender, dateTime, allowChat) ==
  /\ ~exists(ride)
  /\ IF ~createRideSchema(availableSeats)
       THEN /\ res' = ValidationFailed
            /\ UNCHANGED <<ride, initialSeats>>
       ELSE IF dateTime = InvalidDate
       THEN /\ res' = InvalidInput
            /\ UNCHANGED <<ride, initialSeats>>
       ELSE LET doc == newRide(protect(u), availableSeats, preferredGender,
                               dateTime, allowChat)
            IN IF validate(doc)
                 THEN /\ ride' = doc
                      /\ initialSeats' = availableSeats
                      /\ res' = RideCreated
                 ELSE /\ res' = InternalError
                      /\ UNCHANGED <<ride, initialSeats>>
  /\ UNCHANGED <<now, procs, aux>>

(* Time passes. *)
Tick ==
  /\ now + TickStep <= MaxNow
  /\ now' = now + TickStep
  /\ UNCHANGED <<ride, initialSeats, res, procs, aux>>

(* updateRideTime parses the date before it looks the ride up. *)
fetches(req) == ~(req.op = "updateRideTime" /\ req.dateTime = InvalidDate)

(* Bound: requestRide is served while __v is below MaxVersion.  Every     *)
(* other write of an array removes a pending request, so __v is bounded.   *)
versionInBound == exists(ride) => ride.v < MaxVersion

----------------------------------------------------------------------------
(* Spec: a handler runs from findById to its response in one step. *)

Run(req) ==
  LET doc == IF fetches(req) THEN postFindOne(ride, now) ELSE ride
      plan == prepare(req, doc)
  IN IF plan.ok THEN Commit(doc, plan.code, plan.upd)
     ELSE [store |-> doc, code |-> plan.code]

requestRide(u) ==
  LET out == Run(Request("requestRide", u, NoUser, NoDecision, InvalidDate))
  IN /\ versionInBound
     /\ ride' = out.store
     /\ res' = out.code
     /\ UNCHANGED <<initialSeats, now, procs, aux>>

cancelRequest(u) ==
  LET out == Run(Request("cancelRequest", u, NoUser, NoDecision, InvalidDate))
  IN /\ ride' = out.store
     /\ res' = out.code
     /\ UNCHANGED <<initialSeats, now, procs, aux>>

decideRequest(u, userId, decision) ==
  LET out == Run(Request("decideRequest", u, userId, decision, InvalidDate))
  IN /\ ride' = out.store
     /\ res' = out.code
     /\ UNCHANGED <<initialSeats, now, procs, aux>>

updateRideTime(u, dateTime) ==
  LET out == Run(Request("updateRideTime", u, NoUser, NoDecision, dateTime))
  IN /\ ride' = out.store
     /\ res' = out.code
     /\ UNCHANGED <<initialSeats, now, procs, aux>>

closeRide(u) ==
  LET out == Run(Request("closeRide", u, NoUser, NoDecision, InvalidDate))
  IN /\ ride' = out.store
     /\ res' = out.code
     /\ UNCHANGED <<initialSeats, now, procs, aux>>

(* The capacities asked for: the small ones and the two around the upper   *)
(* limit of the request schema.                                            *)
SeatChoices == (0..MaxSeats) \cup {JoiMaxSeats, JoiMaxSeats + 1}

(* The actors who create rides under Spec: one of each college. *)
SpecCreators == {"u1", "u4"}

Create ==
  \E u \in SpecCreators, n \in SeatChoices, g \in GenderChoices,
     d \in DateChoices \cup {InvalidDate}, c \in BOOLEAN : createRide(u, n, g, d, c)

Next ==
  \/ Create
  \/ Tick
  \/ \E u \in Users : requestRide(u)
  \/ \E u \in Users : cancelRequest(u)
  \/ \E u \in Users, t \in Users, d \in {"accept", "reject"} : decideRequest(u, t, d)
  \/ \E u \in Users, d \in DateChoices \cup {InvalidDate} : updateRideTime(u, d)
  \/ \E u \in Users : closeRide(u)

Spec == Init /\ [][Next]_vars

----------------------------------------------------------------------------
(* SpecConc: the awaits of a handler are separate steps.  A handler in     *)
(* flight holds the document its findById returned; pc says which await it *)
(* is suspended at: "hook" the save() of the post-findOne hook, "save" the *)
(* handler's own save().                                                   *)

InFlight(pc, req, doc, upd) == [pc |-> pc, req |-> req, doc |-> doc, upd |-> upd]

(* From the document in hand to the handler's save(), or to the response. *)
afterFetch(p, req, doc) ==
  IF prepare(req, doc).ok
    THEN [procs |-> [procs EXCEPT
                       ![p] = InFlight("save", req, NoRide, prepare(req, doc).upd)],
          res |-> res]
    ELSE [procs |-> [procs EXCEPT ![p] = IdleProc], res |-> prepare(req, doc).code]

(* findById up to the first await that follows it. *)
fetch(p, req) ==
  IF fetches(req) /\ exists(ride) /\ isStale(ride, now)
    THEN [procs |-> [procs EXCEPT
                       ![p] = InFlight("hook", req, postFindOne(ride, now), NoUpdate)],
          res |-> res]
    ELSE afterFetch(p, req, ride)

requestRideBegin(p, u) ==
  LET out == fetch(p, Request("requestRide", u, NoUser, NoDecision, InvalidDate))
  IN /\ versionInBound
     /\ procs[p].pc = "idle"
     /\ procs' = out.procs
     /\ res' = out.res
     /\ UNCHANGED <<ride, initialSeats, now, aux>>

cancelRequestBegin(p, u) ==
  LET out == fetch(p, Request("cancelRequest", u, NoUser, NoDecision, InvalidDate))
  IN /\ procs[p].pc = "idle"
     /\ procs' = out.procs
     /\ res' = out.res
     /\ UNCHANGED <<ride, initialSeats, now, aux>>

decideRequestBegin(p, u, userId, decision) ==
  LET out == fetch(p, Request("decideRequest", u, userId, decision, InvalidDate))
  IN /\ procs[p].pc = "idle"
     /\ procs' = out.procs
     /\ res' = out.res
     /\ UNCHANGED <<ride, initialSeats, now, aux>>

closeRideBegin(p, u) ==
  LET out == fetch(p, Request("closeRide", u, NoUser, NoDecision, InvalidDate))
  IN /\ procs[p].pc = "idle"
     /\ procs' = out.procs
     /\ res' = out.res
     /\ UNCHANGED <<ride, initialSeats, now, aux>>

(* The response a handler sends once its save() has resolved. *)
successCode(req) ==
  CASE req.op = "requestRide" -> RequestSent
    [] req.op = "cancelRequest" -> RequestCancelled
    [] req.op = "decideRequest" -> IF req.decision = "accept" THEN Confirmed ELSE Rejected
    [] req.op = "updateRideTime" -> TimeUpdated
    [] req.op = "closeRide" -> RideClosed

(* The hook's doc.save() completes; the handler goes on with the document. *)
hookSave(p) ==
  LET out == afterFetch(p, procs[p].req, procs[p].doc)
  IN /\ procs[p].pc = "hook"
     /\ ride' = hookUpdate(ride)
     /\ procs' = out.procs
     /\ res' = out.res
     /\ UNCHANGED <<initialSeats, now, aux>>

(* The handler's save() completes and the response is sent. *)
handlerSave(p) ==
  LET out == Commit(ride, successCode(procs[p].req), procs[p].upd)
  IN /\ procs[p].pc = "save"
     /\ ride' = out.store
     /\ res' = out.code
     /\ procs' = [procs EXCEPT ![p] = IdleProc]
     /\ UNCHANGED <<initialSeats, now, aux>>

(* The requests that race: those of the creator and of two riders of the   *)
(* same college, on a ride open to any gender.  updateRideTime writes      *)
(* dateTime and expiresAt only and is left to Spec.                        *)
Riders == {"u2", "u3"}

CreateConc ==
  \E u \in Creators, n \in 1..MaxSeats : createRide(u, n, "Any", 0, TRUE)

NextConc ==
  \/ CreateConc
  \/ Tick
  \/ \E u \in Riders \cup Creators : requestRide(u)
  \/ \E u \in Riders : cancelRequest(u)
  \/ \E u \in Creators, t \in Riders, d \in {"accept", "reject"} : decideRequest(u, t, d)
  \/ \E u \in Creators : closeRide(u)
  \/ \E p \in Procs, u \in Riders \cup Creators : requestRideBegin(p, u)
  \/ \E p \in Procs, u \in Riders : cancelRequestBegin(p, u)
  \/ \E p \in Procs, u \in Creators, t \in Riders, d \in {"accept", "reject"} :
        decideRequestBegin(p, u, t, d)
  \/ \E p \in Procs, u \in Creators : closeRideBegin(p, u)
  \/ \E p \in Procs : hookSave(p)
  \/ \E p \in Procs : handlerSave(p)

SpecConc == Init /\ [][NextConc]_vars

(* updateRideTime up to the first await that follows its findById. *)
updateRideTimeBegin(p, u, dateTime) ==
  LET out == fetch(p, Request("updateRideTime", u, NoUser, NoDecision, dateTime))
  IN /\ procs[p].pc = "idle"
     /\ procs' = out.procs
     /\ res' = out.res
     /\ UNCHANGED <<ride, initialSeats, now, aux>>

(* A reschedule and the decisions of the creator that race with it. *)
NextTime ==
  \/ CreateConc
  \/ Tick
  \/ \E u \in Riders : requestRide(u)
  \/ \E u \in Creators, t \in Riders, d \in {"accept", "reject"} : decideRequest(u, t, d)
  \/ \E u \in Creators, d \in DateChoices : updateRideTime(u, d)
  \/ \E p \in Procs, u \in Creators, d \in DateChoices : updateRideTimeBegin(p, u, d)
  \/ \E p \in Procs, u \in Creators, t \in Riders : decideRequestBegin(p, u, t, "accept")
  \/ \E p \in Procs : hookSave(p)
  \/ \E p \in Procs : handlerSave(p)

SpecTime == Init /\ [][NextTime]_vars

----------------------------------------------------------------------------
(* The read paths (src/controllers/rideController.js) and the post("find") *)
(* hook.  The collection holds the ride the other routes work on and one   *)
(* more ride, other.  A lean() query hands plain objects to the hook,      *)
(* whose doc.save() is then not a function: the hook throws on the first   *)
(* stale ride of the result and the handler's catch block answers 500.     *)

TWELVE_HOURS == 12

AccessDenied == Resp(403, "Access denied")

(* res.json(rides): the records sent back. *)
Found(docs) == [status |-> 200, message |-> "", rides |-> docs]

(* The filters my-rides is asked with. *)
StatusChoices == {"all", "open"}
TypeChoices == {"all", "created"}

(* The two documents of the collection, by _id. *)
Ids == <<"ride", "other">>

stored(id) == IF id = "ride" THEN ride ELSE other

listQuery(doc, user, t) ==
  /\ doc.creatorCollegeId = user.collegeId
  /\ doc.status \in {"OPEN", "FULL"}
  /\ doc.dateTime >= t - TWELVE_HOURS

(* byDate: the search names the day of the rides, which replaces the       *)
(* filter on rides still to come.                                          *)
searchQuery(doc, user, t, byDate) ==
  /\ doc.creatorCollegeId = user.collegeId
  /\ doc.status \in {"OPEN", "FULL"}
  /\ byDate \/ doc.dateTime >= t
  /\ \/ doc.preferredGender = "Any"
     \/ toLowerCase(doc.preferredGender) = userGender(user)

recentQuery(doc, user, t) ==
  /\ doc.creatorCollegeId = user.collegeId
  /\ doc.status \in {"OPEN", "FULL"}
  /\ doc.dateTime >= t

rideQuery(doc, user, status, type) ==
  /\ doc.creatorCollegeId = user.collegeId
  /\ CASE status = "open" -> doc.status = "OPEN"
       [] status = "full" -> doc.status = "FULL"
       [] status = "closed" -> doc.status = "CLOSED"
       [] OTHER -> TRUE
  /\ CASE type = "created" -> doc.creatorId = user.id
       [] type = "requested" -> includes(doc.requests, user.id)
       [] type = "confirmed" -> includes(doc.confirmedUsers, user.id)
       [] type = "all" -> \/ doc.creatorId = user.id
                          \/ includes(doc.requests, user.id)
                          \/ includes(doc.confirmedUsers, user.id)
       [] OTHER -> TRUE

(* sort({ dateTime: 1 }) of at most two documents. *)
sort(ids) ==
  IF Len(ids) = 2 /\ stored(ids[1]).dateTime > stored(ids[2]).dateTime
    THEN <<ids[2], ids[1]>>
    ELSE ids

(* Ride.find(query).sort({ dateTime: 1 }): the _ids of the documents that  *)
(* match, in the order they are handed to the hook.                        *)
find(Q(_)) == sort(SelectSeq(Ids, LAMBDA i : exists(stored(i)) /\ Q(stored(i))))

docsOf(ids) == [k \in 1..Len(ids) |-> stored(ids[k])]

(* Variant: the hook saves every document of the result. *)
staleIds_wholeResult(ids) == ids

(* The documents of a result that post("find") closes. *)
staleIds(ids) == SelectSeq(ids, LAMBDA i : isStale(stored(i), now))

(* Variant: the query hands back the records as it fetched them. *)
afterHook_asFetched(ids) == docsOf(ids)

(* The records a query hands back once its hook has run. *)
afterHook(ids) == [k \in 1..Len(ids) |-> postFindOne(stored(ids[k]), now)]

(* Ride.find(query).lean() behind post("find"). *)
findLean(Q(_)) ==
  IF staleIds(find(Q)) # << >> THEN [ok |-> FALSE, docs |-> << >>]
  ELSE [ok |-> TRUE, docs |-> docsOf(find(Q))]

leanResponse(out) == IF out.ok THEN Found(out.docs) ELSE InternalError

listRides(u) ==
  /\ res' = leanResponse(findLean(LAMBDA d : listQuery(d, protect(u), now)))
  /\ UNCHANGED <<ride, initialSeats, now, procs, aux>>

searchRides(u, byDate) ==
  /\ res' = leanResponse(findLean(LAMBDA d : searchQuery(d, protect(u), now, byDate)))
  /\ UNCHANGED <<ride, initialSeats, now, procs, aux>>

getRecentRides(u) ==
  /\ res' = leanResponse(findLean(LAMBDA d : recentQuery(d, protect(u), now)))
  /\ UNCHANGED <<ride, initialSeats, now, procs, aux>>

(* Ride.findById(rideId).lean() behind post("findOne"), then the college   *)
(* check.                                                                  *)
getRideDetailsBody(doc, user) ==
  IF ~exists(doc) THEN NotFound
  ELSE IF isStale(doc, now) THEN InternalError
  ELSE IF doc.creatorCollegeId # user.collegeId THEN AccessDenied
  ELSE Found(<<doc>>)

getRideDetails(u) ==
  /\ res' = getRideDetailsBody(ride, protect(u))
  /\ UNCHANGED <<ride, initialSeats, now, procs, aux>>

(* getUserRides is the one list that is not lean: its hook saves the stale *)
(* rides of the result one after the other, and the handler answers when   *)
(* the last save() has resolved.  todo holds the ids still to be saved,    *)
(* docs the records in hand.                                               *)
getUserRides(u, status, type) ==
  LET ids == find(LAMBDA d : rideQuery(d, protect(u), status, type))
  IN /\ reading = NoRead
     /\ IF staleIds(ids) # << >>
          THEN /\ reading' = [ids |-> ids, docs |-> afterHook(ids), todo |-> staleIds(ids)]
               /\ res' = res
          ELSE /\ reading' = reading
               /\ res' = Found(docsOf(ids))
     /\ UNCHANGED <<ride, initialSeats, now, procs, other, env, chat, room,
                    chat2>>

(* One doc.save() of the hook's loop resolves; after the last one the     *)
(* handler responds with the documents the query handed it.               *)
postFind ==
  LET todo == reading.todo
      rest == Tail(todo)
  IN /\ todo # << >>
     /\ ride' = IF Head(todo) = "ride" THEN hookUpdate(ride) ELSE ride
     /\ other' = IF Head(todo) = "other" THEN hookUpdate(other) ELSE other
     /\ IF rest = << >>
          THEN /\ reading' = NoRead
               /\ res' = Found(reading.docs)
          ELSE /\ reading' = [reading EXCEPT !.todo = rest]
               /\ res' = res
     /\ UNCHANGED <<initialSeats, now, procs, env, chat, room,
                    chat2>>

(* A second ride of the same college, created by a rider of the first. *)
otherRide == newRide(protect("u2"), 1, "Any", 0, TRUE)

createOther ==
  /\ ~exists(other)
  /\ other' = otherRide
  /\ UNCHANGED <<ride, initialSeats, now, res, procs, env, chat, room, reading,
                 chat2>>

Readers == {"u1", "u2", "u4"}

CreateRead ==
  \E u \in Creators, n \in 1..MaxSeats, d \in DateChoices :
    createRide(u, n, "Any", d, TRUE)

NextRead ==
  \/ CreateRead
  \/ createOther
  \/ Tick
  \/ \E u \in Riders : requestRide(u)
  \/ \E u \in Creators, t \in Riders, d \in {"accept", "reject"} : decideRequest(u, t, d)
  \/ \E u \in Readers : listRides(u)
  \/ \E u \in Readers, byDate \in BOOLEAN : searchRides(u, byDate)
  \/ \E u \in Readers : getRecentRides(u)
  \/ \E u \in Readers : getRideDetails(u)
  \/ \E u \in Readers, st \in StatusChoices, ty \in TypeChoices :
        getUserRides(u, st, ty)
  \/ postFind
  \/ \E p \in Procs, u \in Creators, t \in Riders : decideRequestBegin(p, u, t, "accept")
  \/ \E p \in Procs : hookSave(p)
  \/ \E p \in Procs : handlerSave(p)

SpecRead == Init /\ [][NextRead]_vars

----------------------------------------------------------------------------
(* The chat routes (chatController) and the socket hub (server).  chat is  *)
(* the Chat document of the ride, its messages named by their senders;     *)
(* room is the set of users whose socket has joined the room of the ride;  *)
(* what a socket handler emits is recorded in res.                         *)

NodeEnvs == {"undefined", "development", "production"}

ChatDisabled == Resp(403, "Chat disabled by creator")
NotPartOfRide == Resp(403, "You are not part of this ride")
MessageSent == Resp(201, "Message sent successfully")

(* res.json({ messages }) *)
Messages(log) == [status |-> 200, message |-> "", messages |-> log]

(* socket.emit(event, { message }) *)
Emit(event, message) == [status |-> 0, event |-> event, message |-> message]

Joined == Emit("chat:joined", "")

(* io.to(room).emit("chat:new", messageData): the sockets it reaches. *)
ChatNew(userId, to) ==
  [status |-> 0, event |-> "chat:new", message |-> "", userId |-> userId, to |-> to]

(* [ride.creatorId, ...ride.requests, ...ride.confirmedUsers] *)
members(doc) == <<doc.creatorId>> \o doc.requests \o doc.confirmedUsers

(* post("findOne") of the Chat model deletes a chat past its expiresAt. *)
chatExpired(c, t) == c.exists /\ c.expiresAt < t

(* ensureChat: the chat found or created, with its retention renewed. *)
ensureChat(c, t) ==
  IF ~c.exists
    THEN [exists |-> TRUE, messages |-> << >>, expiresAt |-> t + THIRTY_DAYS]
    ELSE [c EXCEPT !.expiresAt = t + THIRTY_DAYS]

(* Variant: sendMessage does not look at allowChat. *)
sendMessageBody_noToggle(doc, user) ==
  IF ~exists(doc) THEN NotFound
  ELSE IF ~includes(members(doc), user.id) THEN NotPartOfRide
  ELSE MessageSent

(* sendMessage, from the document in hand to the decision. *)
sendMessageBody(doc, user) ==
  IF ~exists(doc) THEN NotFound
  ELSE IF ~doc.allowChat THEN ChatDisabled
  ELSE IF ~includes(members(doc), user.id) THEN NotPartOfRide
  ELSE MessageSent

(* POST /api/chat/messages.  A chat found past its expiresAt is deleted by *)
(* the hook of Chat.findOne, and the save() of the deleted document fails. *)
sendMessage(u) ==
  LET doc == postFindOne(ride, now)
      code == sendMessageBody(doc, protect(u))
  IN /\ Len(chat.messages) < MaxMessages
     /\ ride' = doc
     /\ IF code # MessageSent
          THEN res' = code /\ chat' = chat
          ELSE IF chatExpired(chat, now)
          THEN res' = InternalError /\ chat' = NoChat
          ELSE /\ res' = MessageSent
               /\ chat' = [ensureChat(chat, now) EXCEPT !.messages = Append(@, u)]
     /\ UNCHANGED <<initialSeats, now, procs, other, env, room, reading,
                    chat2>>

(* listMessages: Ride.findById().lean() behind post("findOne"), then the   *)
(* membership check, then Chat.findOne().lean() behind its own hook.       *)
listMessagesBody(doc, user, c) ==
  IF ~exists(doc) THEN NotFound
  ELSE IF isStale(doc, now) THEN InternalError
  ELSE IF ~includes(members(doc), user.id) THEN NotPartOfRide
  ELSE IF chatExpired(c, now) THEN InternalError
  ELSE Messages(c.messages)

(* GET /api/chat/messages *)
listMessages(u) ==
  /\ res' = listMessagesBody(ride, protect(u), chat)
  /\ UNCHANGED <<ride, initialSeats, now, procs, aux>>

LookupFailed == Resp(500, "Error fetching user data")

(* getRideDetails of the chat controller: Ride.findById().lean() behind    *)
(* post("findOne"), the membership check, then the lookup of the names of  *)
(* the participants; found tells whether that lookup returned no error.    *)
chatGetRideDetailsBody(doc, user, found) ==
  IF ~exists(doc) THEN NotFound
  ELSE IF isStale(doc, now) THEN InternalError
  ELSE IF ~includes(members(doc), user.id) THEN NotPartOfRide
  ELSE IF ~found THEN LookupFailed
  ELSE Found(<<doc>>)

(* GET /api/chat/ride *)
chatGetRideDetails(u, found) ==
  /\ res' = chatGetRideDetailsBody(ride, protect(u), found)
  /\ UNCHANGED <<ride, initialSeats, now, procs, aux>>

isDevelopment == env = "development" \/ env = "undefined"

(* chat:join, from the document in hand to what the socket is sent. *)
chatJoinBody(doc, user) ==
  LET isCreator == doc.creatorId = user.id
      allowed == IF isDevelopment THEN TRUE ELSE includes(members(doc), user.id)
  IN IF ~exists(doc) THEN Emit("error", "Ride not found")
     ELSE IF ~allowed /\ ~isCreator THEN Emit("error", "Not authorized for this ride")
     ELSE Joined

(* socket.on("chat:join") *)
chatJoin(u) ==
  LET doc == postFindOne(ride, now)
      code == chatJoinBody(doc, protect(u))
  IN /\ ride' = doc
     /\ res' = code
     /\ room' = IF code = Joined THEN room \cup {u} ELSE room
     /\ UNCHANGED <<initialSeats, now, procs, other, env, chat, reading,
                    chat2>>

(* chat:send, from the document in hand to what is emitted; nothing is     *)
(* emitted to a sender who is not part of the ride.                        *)
chatSendBody(doc, user) ==
  IF ~exists(doc) THEN NoResponse
  ELSE IF ~includes(members(doc), user.id) THEN NoResponse
  ELSE IF ~doc.allowChat THEN Emit("error", "Chat is disabled for this ride")
  ELSE ChatNew(user.id, room)

(* Variant: the hub writes the message it emits to the log. *)
chatSend_persists(u) ==
  LET doc == postFindOne(ride, now)
      code == chatSendBody(doc, protect(u))
  IN /\ ride' = doc
     /\ res' = code
     /\ chat' = IF code = ChatNew(u, room) /\ Len(chat.messages) < MaxMessages
                  THEN [ensureChat(chat, now) EXCEPT !.messages = Append(@, u)]
                  ELSE chat
     /\ UNCHANGED <<initialSeats, now, procs, other, env, room, reading,
                    chat2>>

(* socket.on("chat:send"): the message is emitted, not stored. *)
chatSend(u) ==
  LET doc == postFindOne(ride, now)
  IN /\ ride' = doc
     /\ res' = chatSendBody(doc, protect(u))
     /\ UNCHANGED <<initialSeats, now, procs, aux>>

(* The socket closes and leaves its rooms. *)
disconnect(u) ==
  /\ u \in room
  /\ room' = room \ {u}
  /\ UNCHANGED <<ride, initialSeats, now, res, procs, other, env, chat, reading,
                 chat2>>

(* The users of the chat: the creator, a rider of the same college and a   *)
(* user of another college.                                                *)
Chatters == {"u1", "u2", "u4"}

InitChat ==
  /\ ride = NoRide
  /\ initialSeats = 0
  /\ now = 0
  /\ res = NoResponse
  /\ procs = [p \in Procs |-> IdleProc]
  /\ other = NoRide
  /\ env \in NodeEnvs
  /\ chat = NoChat
  /\ room = {}
  /\ reading = NoRead
  /\ chat2 = NoChat

CreateChat ==
  \E u \in Creators, d \in DateChoices, c \in BOOLEAN :
    createRide(u, 1, "Any", d, c)

NextChat ==
  \/ CreateChat
  \/ Tick
  \/ \E u \in Chatters \ Creators : requestRide(u)
  \/ \E u \in Chatters \ Creators : cancelRequest(u)
  \/ \E u \in Creators, t \in Chatters \ Creators, d \in {"accept", "reject"} :
        decideRequest(u, t, d)
  \/ \E u \in Chatters : sendMessage(u)
  \/ \E u \in Chatters : listMessages(u)
  \/ \E u \in Chatters, found \in BOOLEAN : chatGetRideDetails(u, found)
  \/ \E u \in Chatters : chatJoin(u)
  \/ \E u \in Chatters : chatSend(u)
  \/ \E u \in Chatters : disconnect(u)

SpecChat == InitChat /\ [][NextChat]_vars

----------------------------------------------------------------------------
(* sendMessage suspended at its awaits.  chat2 is a second Chat document   *)
(* with the rideId of the ride; Chat.findOne({ rideId }) finds chat, the   *)
(* older one, when both exist.                                             *)

(* What chat.save() sends for a chat that ensureChat found: the renewed    *)
(* expiresAt and the pushed message.                                       *)
foundChatUpdate(u, t) ==
  [NoUpdate EXCEPT !.set = [expiresAt |-> t + THIRTY_DAYS],
                   !.push = [messages |-> <<u>>]]

(* What chat.save() sends for a chat that ensureChat created. *)
createdChatUpdate(u) == [NoUpdate EXCEPT !.push = [messages |-> <<u>>]]

(* sendMessage up to the Chat.findOne of ensureChat: with no chat found    *)
(* the handler goes on to Chat.create, with one found to its save().       *)
sendMessageBegin(p, u) ==
  LET doc == postFindOne(ride, now)
      code == sendMessageBody(doc, protect(u))
      req == Request("sendMessage", u, NoUser, NoDecision, InvalidDate)
  IN /\ procs[p].pc = "idle"
     /\ Len(chat.messages) < MaxMessages
     /\ ride' = doc
     /\ IF code # MessageSent
          THEN res' = code /\ chat' = chat /\ procs' = procs
          ELSE IF chatExpired(chat, now)
          THEN res' = InternalError /\ chat' = NoChat /\ procs' = procs
          ELSE /\ res' = res
               /\ chat' = chat
               /\ procs' = [procs EXCEPT ![p] =
                    IF chat.exists
                      THEN InFlight("chatSave", req, NoRide, foundChatUpdate(u, now))
                      ELSE InFlight("chatCreate", req, NoRide, createdChatUpdate(u))]
     /\ UNCHANGED <<initialSeats, now, other, env, room, reading, chat2>>

(* Chat.create resolves: one more Chat document for the ride, the index on *)
(* rideId not being unique, and the handler goes on to save() it.          *)
chatCreate(p) ==
  LET created == ensureChat(NoChat, now)
  IN /\ procs[p].pc = "chatCreate"
     /\ IF chat.exists
          THEN /\ chat2' = created
               /\ chat' = chat
               /\ procs' = [procs EXCEPT ![p].pc = "chatSave2"]
          ELSE /\ chat' = created
               /\ chat2' = chat2
               /\ procs' = [procs EXCEPT ![p].pc = "chatSave"]
     /\ UNCHANGED <<ride, initialSeats, now, res, other, env, room, reading>>

(* The update of chat.save() applied to a Chat document. *)
applyChatUpdate(c, upd) ==
  [c EXCEPT !.messages = @ \o upd.push.messages,
            !.expiresAt = IF "expiresAt" \in DOMAIN upd.set
                            THEN upd.set.expiresAt ELSE @]

(* chat.save() resolves on the document in hand, and the handler answers   *)
(* 201.                                                                    *)
chatSave(p) ==
  /\ procs[p].pc \in {"chatSave", "chatSave2"}
  /\ IF procs[p].pc = "chatSave"
       THEN /\ Len(chat.messages) < MaxMessages
            /\ chat' = applyChatUpdate(chat, procs[p].upd)
            /\ chat2' = chat2
       ELSE /\ chat2' = applyChatUpdate(chat2, procs[p].upd)
            /\ chat' = chat
  /\ res' = MessageSent
  /\ procs' = [procs EXCEPT ![p] = IdleProc]
  /\ UNCHANGED <<ride, initialSeats, now, other, env, room, reading>>

Senders == {"u1", "u2"}

CreateSend ==
  \E u \in Creators, d \in DateChoices, c \in BOOLEAN :
    createRide(u, 1, "Any", d, c)

NextSend ==
  \/ CreateSend
  \/ Tick
  \/ \E u \in Senders \ Creators : requestRide(u)
  \/ \E u \in Senders \ Creators : cancelRequest(u)
  \/ \E u \in Senders : sendMessage(u)
  \/ \E u \in Senders : listMessages(u)
  \/ \E p \in Procs, u \in Senders : sendMessageBegin(p, u)
  \/ \E p \in Procs : chatCreate(p)
  \/ \E p \in Procs : chatSave(p)

SpecSend == Init /\ [][NextSend]_vars

----------------------------------------------------------------------------
(* Properties *)

isAccept(req) == req.op = "decideRequest" /\ req.decision = "accept"

count(seq, x) == Cardinality({i \in 1..Len(seq) : seq[i] = x})

(* An accept whose save() is pending while the seat it read is gone. *)
lostRace(p) ==
  /\ procs[p].pc = "save"
  /\ isAccept(procs[p].req)
  /\ exists(ride)
  /\ procs[p].upd.set.availableSeats = 0
  /\ ride.availableSeats = 0

(* C1: in every reachable state, under every interleaving of the handlers  *)
(* and of the reaper hook, availableSeats is at least 0.                   *)
C1_SeatsNonNegative == exists(ride) => ride.availableSeats >= 0

C1_Witness == \E p \in Procs : lostRace(p)

(* C2: in every reachable state, concurrent decisions included, the number *)
(* of confirmed users plus availableSeats is the capacity the ride was     *)
(* created with.                                                           *)
C2_SeatAccounting ==
  exists(ride) => Len(ride.confirmedUsers) + ride.availableSeats = initialSeats

C2_Witness ==
  /\ exists(ride)
  /\ res = InternalError
  /\ initialSeats = 1
  /\ Len(ride.confirmedUsers) = 1
  /\ Len(ride.requests) = 1

(* C3: of two concurrent accepts of different actors for the last seat,    *)
(* the one that loses reports NoSeatsLeft, confirms nobody and leaves its  *)
(* target in requests.                                                     *)
C3_LoserGetsNoSeatsLeft ==
  [][\A p \in Procs :
       (/\ lostRace(p)
        /\ ~includes(ride.confirmedUsers, procs[p].req.target)
        /\ handlerSave(p))
       => /\ res' = NoSeatsLeft
          /\ ride'.confirmedUsers = ride.confirmedUsers
          /\ includes(ride'.requests, procs[p].req.target)]_vars

(* C4: of two concurrent accepts of the same pending actor for the last    *)
(* seat, the one that loses reports NoSeatsLeft, and the actor is in       *)
(* confirmedUsers exactly once.                                            *)
C4_SameTargetLoserGetsNoSeatsLeft ==
  [][\A p \in Procs :
       (/\ lostRace(p)
        /\ includes(ride.confirmedUsers, procs[p].req.target)
        /\ handlerSave(p))
       => /\ res' = NoSeatsLeft
          /\ count(ride'.confirmedUsers, procs[p].req.target) = 1]_vars

(* C5: in every reachable state no actor is in both requests and           *)
(* confirmedUsers.                                                         *)
C5_Disjoint ==
  exists(ride) =>
    \A u \in Users : ~(includes(ride.requests, u) /\ includes(ride.confirmedUsers, u))

(* C6: in every reachable state each actor occurs at most once in requests *)
(* and at most once in confirmedUsers, also when one actor's requestRide   *)
(* calls run concurrently.                                                 *)
C6_NoDuplicates ==
  exists(ride) =>
    \A u \in Users : count(ride.requests, u) <= 1 /\ count(ride.confirmedUsers, u) <= 1

(* C7: once a ride is CLOSED no operation, run one at a time, changes its  *)
(* status.                                                                 *)
C7_ClosedIsTerminal ==
  [][(exists(ride) /\ ride.status = "CLOSED") => ride'.status = "CLOSED"]_vars

isPrefix(s, t) == Len(s) <= Len(t) /\ SubSeq(t, 1, Len(s)) = s

(* C8: along every execution the status never returns to OPEN from FULL or *)
(* CLOSED, availableSeats never increases and confirmedUsers never loses   *)
(* an actor.                                                               *)
C8_Monotone ==
  [][exists(ride) =>
       /\ ride.status # "OPEN" => ride'.status # "OPEN"
       /\ ride'.availableSeats <= ride.availableSeats
       /\ isPrefix(ride.confirmedUsers, ride'.confirmedUsers)]_vars

C8_Witness ==
  /\ exists(ride)
  /\ ride.status = "CLOSED"
  /\ ride.availableSeats = 0
  /\ Len(ride.confirmedUsers) = 1
  /\ \E p \in Procs : procs[p].pc = "save"

(* C9: an accept by the creator of a pending actor on a ride with a seat   *)
(* left succeeds, moves the actor from requests to confirmedUsers, takes   *)
(* exactly one seat, sets the status to FULL exactly when no seat is left  *)
(* and sets expiresAt to dateTime + 30 days.                               *)
C9_AcceptEffect ==
  [][\A u \in Users, t \in Users :
       (/\ exists(ride)
        /\ u = ride.creatorId
        /\ includes(ride.requests, t)
        /\ ride.availableSeats >= 1
        /\ decideRequest(u, t, "accept"))
       => /\ res' = Confirmed
          /\ ~includes(ride'.requests, t)
          /\ ride'.confirmedUsers = Append(ride.confirmedUsers, t)
          /\ ride'.availableSeats = ride.availableSeats - 1
          /\ ride'.status = "FULL" <=> ride'.availableSeats = 0
          /\ ride'.dateTime = ride.dateTime
          /\ ride'.expiresAt = ride.dateTime + THIRTY_DAYS]_vars

C9_Witness ==
  /\ exists(ride)
  /\ res = Confirmed
  /\ initialSeats = 1
  /\ ride.availableSeats = 0
  /\ ride.status = "FULL"
  /\ ride.confirmedUsers = <<"u2">>
  /\ ride.requests = << >>
  /\ ride.expiresAt = ride.dateTime + THIRTY_DAYS

(* C10: an accept on a ride with no seat left fails with NoSeatsLeft and   *)
(* leaves the ride as it was.                                              *)
C10_NoSeatsLeft ==
  [][\A u \in Users, t \in Users :
       (/\ exists(ride)
        /\ u = ride.creatorId
        /\ includes(ride.requests, t)
        /\ ride.availableSeats <= 0
        /\ decideRequest(u, t, "accept"))
       => /\ res' = NoSeatsLeft
          /\ ride' = ride]_vars

C10_Witness ==
  /\ exists(ride)
  /\ res = NoSeatsLeft
  /\ ride.status = "FULL"
  /\ ride.availableSeats = 0
  /\ Len(ride.requests) = 1

(* The fields a caller who is not the creator must not be able to change. *)
guardedFields(doc) ==
  <<doc.requests, doc.confirmedUsers, doc.availableSeats, doc.dateTime, doc.expiresAt>>

(* What a handler answers and stores when it runs in the current state. *)
forbidden(req, code) ==
  /\ Run(req).code = code
  /\ guardedFields(Run(req).store) = guardedFields(ride)

nonCreatorForbidden(dates) ==
  \A u \in Users :
    (exists(ride) /\ u # ride.creatorId) =>
      /\ \A t \in Users, d \in {"accept", "reject"} :
           forbidden(Request("decideRequest", u, t, d, InvalidDate), OnlyCreatorDecide)
      /\ forbidden(Request("closeRide", u, NoUser, NoDecision, InvalidDate),
                   OnlyCreatorClose)
      /\ \A dt \in dates :
           forbidden(Request("updateRideTime", u, NoUser, NoDecision, dt),
                     OnlyCreatorUpdate)

(* C11 (amended): in every reachable state, decideRequest, closeRide and   *)
(* updateRideTime with a parsable instant, called by an actor who is not   *)
(* the creator, answer 403 and leave requests, confirmedUsers,             *)
(* availableSeats, dateTime and expiresAt as they were; decideRequest      *)
(* answers 403 whether or not the target is in requests.  (The three       *)
(* handlers are always enabled and deterministic, so the property of their *)
(* steps is stated on what Run gives in each reachable state.)             *)
C11_NonCreatorForbidden == nonCreatorForbidden(DateChoices)

(* C11 as stated: the same for every instant, parsable or not. *)
C11_Original == nonCreatorForbidden(DateChoices \cup {InvalidDate})

C11_Witness ==
  /\ exists(ride)
  /\ res = OnlyCreatorDecide
  /\ ride.requests = << >>

(* The status a handler leaves when it does not write it: the stored one,  *)
(* or, with the reaper step of its findById counted, CLOSED for a ride     *)
(* that was OPEN and stale.                                                *)
statusKept(reaper) ==
  IF reaper /\ isStale(ride, now) THEN "CLOSED" ELSE ride.status

rejectEffect(reaper) ==
  \A u \in Users, t \in Users :
    (/\ exists(ride)
     /\ u = ride.creatorId
     /\ includes(ride.requests, t)
     /\ decideRequest(u, t, "reject"))
    => /\ res' = Rejected
       /\ ride'.requests = filterOut(ride.requests, t)
       /\ ~includes(ride'.requests, t)
       /\ ride'.availableSeats = ride.availableSeats
       /\ ride'.confirmedUsers = ride.confirmedUsers
       /\ ride'.dateTime = ride.dateTime
       /\ ride'.expiresAt = ride.expiresAt
       /\ ride'.status = statusKept(reaper)

(* C12 (amended): a reject by the creator of a pending actor succeeds,     *)
(* removes the actor from requests and leaves availableSeats,              *)
(* confirmedUsers, dateTime and expiresAt unchanged; the status is         *)
(* unchanged too, unless the ride was OPEN with dateTime + 6 hours         *)
(* elapsed, which the handler's fetch closes.                              *)
C12_RejectEffect == [][rejectEffect(TRUE)]_vars

(* C12 as stated: the status is unchanged in every case. *)
C12_Original == [][rejectEffect(FALSE)]_vars

C12_Witness ==
  /\ exists(ride)
  /\ res = Rejected
  /\ ride.status = "CLOSED"
  /\ ride.availableSeats = initialSeats
  /\ Len(ride.requests) = 1

(* C13: requestRide on a ride whose status is CLOSED adds nobody to        *)
(* requests, and the actor (of the ride's college, the check that comes    *)
(* first) is answered InvalidState.                                        *)
C13_ClosedRejectsRequest ==
  [][\A u \in Users :
       (/\ exists(ride)
        /\ ride.status = "CLOSED"
        /\ requestRide(u))
       => /\ ride' = ride
          /\ protect(u).collegeId = ride.creatorCollegeId => res' = InvalidState]_vars

C13_Witness ==
  /\ exists(ride)
  /\ ride.status = "CLOSED"
  /\ res = InvalidState
  /\ ride.availableSeats >= 1
  /\ ride.requests = << >>

(* The actor meets every precondition of requestRide on a ride open to any *)
(* gender that is OPEN and not stale, or FULL.                             *)
mayRequest(u) ==
  /\ exists(ride)
  /\ protect(u).collegeId = ride.creatorCollegeId
  /\ ride.status \in {"OPEN", "FULL"}
  /\ ~isStale(ride, now)
  /\ u # ride.creatorId
  /\ ~includes(ride.requests, u)
  /\ ~includes(ride.confirmedUsers, u)
  /\ ride.preferredGender = "Any"

(* C14: a requestRide that succeeds appends the actor to requests and      *)
(* leaves availableSeats, confirmedUsers, status, dateTime and expiresAt   *)
(* unchanged; it succeeds on a FULL ride as on an OPEN one.                *)
C14_RequestEffect ==
  [][\A u \in Users :
       requestRide(u) =>
         /\ mayRequest(u) => res' = RequestSent
         /\ res' = RequestSent =>
              /\ ride'.requests = Append(ride.requests, u)
              /\ ride'.availableSeats = ride.availableSeats
              /\ ride'.confirmedUsers = ride.confirmedUsers
              /\ ride'.status = ride.status
              /\ ride'.dateTime = ride.dateTime
              /\ ride'.expiresAt = ride.expiresAt]_vars

C14_Witness ==
  /\ exists(ride)
  /\ res = RequestSent
  /\ ride.status = "FULL"
  /\ ride.availableSeats = 0
  /\ Len(ride.requests) = 1

(* The checks of requestRide that come before the gender check pass, on    *)
(* the ride as the fetch leaves it.                                        *)
reachesGenderCheck(u) ==
  /\ exists(ride)
  /\ protect(u).collegeId = ride.creatorCollegeId
  /\ ride.status # "CLOSED"
  /\ ~isStale(ride, now)
  /\ u # ride.creatorId
  /\ ~includes(ride.requests, u)
  /\ ~includes(ride.confirmedUsers, u)

(* C15: requestRide on a ride whose preferredGender is not Any, by an      *)
(* actor whose declared gender differs from it ignoring case, fails with   *)
(* GenderMismatch and leaves the ride as it was.                           *)
C15_GenderMismatch ==
  [][\A u \in Users :
       (/\ reachesGenderCheck(u)
        /\ ride.preferredGender # "Any"
        /\ toLowerCase(ride.preferredGender) # toLowerCase(gender[u])
        /\ requestRide(u))
       => /\ res' = GenderMismatch
          /\ ride' = ride]_vars

C15_Witness ==
  /\ exists(ride)
  /\ res = GenderMismatch
  /\ ride.preferredGender = "Male"
  /\ ride.status = "OPEN"
  /\ ride.requests = << >>

creatorAbsent(doc) ==
  exists(doc) =>
    /\ ~includes(doc.requests, doc.creatorId)
    /\ ~includes(doc.confirmedUsers, doc.creatorId)

(* C16: a requestRide by the creator of a ride that is not closed, nor     *)
(* closed by the fetch, fails with SelfRequest and leaves the ride as it   *)
(* was; no request of the creator adds to requests; and after every step,  *)
(* handlers suspended at their awaits included, the creator is in neither  *)
(* requests nor confirmedUsers.                                            *)
C16_CreatorNeverRides ==
  [][/\ creatorAbsent(ride')
     /\ \A u \in Users :
          (exists(ride) /\ u = ride.creatorId /\ requestRide(u)) =>
            /\ ride'.requests = ride.requests
            /\ (ride.status # "CLOSED" /\ ~isStale(ride, now)) =>
                 (res' = SelfRequest /\ ride' = ride)]_vars

C16_Witness ==
  /\ exists(ride)
  /\ res = SelfRequest
  /\ ride.status = "FULL"
  /\ \E p \in Procs : procs[p].pc = "save"

cancelEffect(reaper) ==
  \A u \in Users :
    (exists(ride) /\ cancelRequest(u)) =>
      /\ ride'.availableSeats = ride.availableSeats
      /\ ride'.confirmedUsers = ride.confirmedUsers
      /\ ride'.dateTime = ride.dateTime
      /\ ride'.expiresAt = ride.expiresAt
      /\ ride'.status = statusKept(reaper)
      /\ IF includes(ride.requests, u)
           THEN /\ res' = RequestCancelled
                /\ ride'.requests = filterOut(ride.requests, u)
                /\ cancelRequestBody(ride', protect(u)).code = NoPendingRequest
           ELSE /\ res' = NoPendingRequest
                /\ ride'.requests = ride.requests
                /\ ride'.v = ride.v

(* C17 (amended): cancelRequest by an actor who is not in requests, one in *)
(* confirmedUsers included, fails with NoPendingRequest; by an actor in    *)
(* requests it removes the actor from requests, after which the same call  *)
(* fails with NoPendingRequest.  In both cases no other field changes,     *)
(* except that a ride that was OPEN with dateTime + 6 hours elapsed is     *)
(* closed by the handler's fetch.                                          *)
C17_CancelEffect == [][cancelEffect(TRUE)]_vars

(* C17 as stated: nothing but requests changes in every case. *)
C17_Original == [][cancelEffect(FALSE)]_vars

C17_Witness ==
  /\ exists(ride)
  /\ res = NoPendingRequest
  /\ ride.requests = << >>
  /\ Len(ride.confirmedUsers) = 1
  /\ ride.status = "FULL"

(* C18: closeRide by the creator succeeds whether the ride is OPEN, FULL   *)
(* or CLOSED, leaves the status CLOSED and changes no other field.         *)
C18_CloseEffect ==
  [][\A u \in Users :
       (exists(ride) /\ u = ride.creatorId /\ closeRide(u)) =>
         /\ res' = RideClosed
         /\ ride' = [ride EXCEPT !.status = "CLOSED"]]_vars

(* A ride with no seat left and a request pending has just been closed. *)
C18_Witness ==
  /\ exists(ride)
  /\ res = RideClosed
  /\ ride.status = "CLOSED"
  /\ ride.availableSeats = 0
  /\ Len(ride.requests) = 1

retentionRule(doc) ==
  IF doc.confirmedUsers # << >> THEN THIRTY_DAYS ELSE SEVEN_DAYS

updateTimeEffect(reaper) ==
  /\ \A u \in Users :
       updateRideTime(u, InvalidDate) => (res' = InvalidInput /\ ride' = ride)
  /\ \A u \in Users, dt \in DateChoices :
       (exists(ride) /\ u = ride.creatorId /\ updateRideTime(u, dt)) =>
         /\ res' = TimeUpdated
         /\ ride'.dateTime = dt
         /\ ride'.expiresAt = dt + retentionRule(ride)
         /\ ride'.requests = ride.requests
         /\ ride'.confirmedUsers = ride.confirmedUsers
         /\ ride'.availableSeats = ride.availableSeats
         /\ ride'.status = statusKept(reaper)

(* C19 (amended): updateRideTime by the creator sets dateTime to the new   *)
(* instant and expiresAt to it plus 30 days if somebody is confirmed, plus *)
(* 7 days otherwise, and leaves requests, confirmedUsers and               *)
(* availableSeats unchanged; the status is unchanged too, unless the ride  *)
(* was OPEN with the old dateTime + 6 hours elapsed, which the handler's   *)
(* fetch closes.  An unparsable instant fails with InvalidInput and        *)
(* changes nothing.                                                        *)
C19_UpdateTimeEffect == [][updateTimeEffect(TRUE)]_vars

(* C19 as stated: the status is unchanged in every case. *)
C19_Original == [][updateTimeEffect(FALSE)]_vars

C19_Witness ==
  /\ exists(ride)
  /\ res = TimeUpdated
  /\ ride.dateTime = 3
  /\ ride.expiresAt = 3 + THIRTY_DAYS
  /\ Len(ride.confirmedUsers) = 1
  /\ ride.status = "OPEN"

(* C20: createRide with a capacity from 1 to 10 and a parsable instant     *)
(* stores a ride with status OPEN, that capacity as availableSeats, empty  *)
(* requests and confirmedUsers, the caller's id and college as creatorId   *)
(* and creatorCollegeId, and expiresAt = dateTime + 7 days; with any other *)
(* capacity no ride is stored.                                             *)
C20_CreateEffect ==
  [][\A u \in SpecCreators, n \in SeatChoices, g \in GenderChoices,
        d \in DateChoices, c \in BOOLEAN :
       (~exists(ride) /\ createRide(u, n, g, d, c)) =>
         IF n >= 1 /\ n <= 10
           THEN /\ res' = RideCreated
                /\ ride'.status = "OPEN"
                /\ ride'.availableSeats = n
                /\ ride'.requests = << >>
                /\ ride'.confirmedUsers = << >>
                /\ ride'.creatorId = u
                /\ ride'.creatorCollegeId = college_id[u]
                /\ ride'.dateTime = d
                /\ ride'.expiresAt = d + SEVEN_DAYS
           ELSE ~exists(ride')]_vars

C20_Witness ==
  /\ exists(ride)
  /\ res = RideCreated
  /\ ride.availableSeats = JoiMaxSeats
  /\ ride.creatorId = "u4"
  /\ ride.creatorCollegeId = "c2"
  /\ ride.expiresAt = ride.dateTime + SEVEN_DAYS

(* The ride is in the result of the query Q. *)
inResult(id, Q(_)) == exists(stored(id)) /\ Q(stored(id))

(* This step is a list, search, recent or details query whose result      *)
(* holds the ride id, from the query to the response.                      *)
leanRead(id) ==
  \E u \in Readers :
    \/ listRides(u) /\ inResult(id, LAMBDA d : listQuery(d, protect(u), now))
    \/ \E byDate \in BOOLEAN :
          /\ searchRides(u, byDate)
          /\ inResult(id, LAMBDA d : searchQuery(d, protect(u), now, byDate))
    \/ getRecentRides(u) /\ inResult(id, LAMBDA d : recentQuery(d, protect(u), now))
    \/ id = "ride" /\ getRideDetails(u) /\ exists(ride)

(* This step is a my-rides query whose result holds the ride id. *)
myRides(id) ==
  \E u \in Readers, st \in StatusChoices, ty \in TypeChoices :
    /\ getUserRides(u, st, ty)
    /\ inResult(id, LAMBDA d : rideQuery(d, protect(u), st, ty))

(* This step ends a read whose result holds the ride id. *)
readCompletes(id) ==
  \/ leanRead(id)
  \/ myRides(id) /\ reading' = NoRead
  \/ postFind /\ reading' = NoRead /\ includes(reading.ids, id)

(* C21: whenever a read path whose result holds a ride that is OPEN with   *)
(* dateTime + 6 hours elapsed has completed, the stored status of that     *)
(* ride is CLOSED.                                                         *)
C21_StaleReadCloses ==
  [][\A id \in {"ride", "other"} :
       (exists(stored(id)) /\ isStale(stored(id), now) /\ readCompletes(id)) =>
         stored(id)'.status = "CLOSED"]_vars

(* C22: the passive transition applies to OPEN rides only: a read whose    *)
(* result holds a ride that is FULL with dateTime + 6 hours elapsed leaves *)
(* the ride as stored, FULL, and schedules no save() for it.               *)
C22_FullStaysFull ==
  [][\A id \in {"ride", "other"} :
       (/\ stored(id).status = "FULL"
        /\ now >= closeAfter(stored(id))
        /\ stored(id)' # stored(id) \/ includes(reading'.todo, id)) =>
         /\ ~myRides(id)
         /\ stored(id)' # stored(id) => ~leanRead(id)]_vars

(* C22 as stated: a ride that is FULL with dateTime + 6 hours elapsed is   *)
(* CLOSED once a read whose result holds it has completed.                 *)
C22_Original ==
  [][\A id \in {"ride", "other"} :
       (/\ stored(id).status = "FULL"
        /\ now >= closeAfter(stored(id))
        /\ readCompletes(id)) =>
         stored(id)'.status = "CLOSED"]_vars

(* A list has answered with the ride, FULL and 6 hours past its departure, *)
(* as the store still holds it.                                            *)
C22_Witness ==
  /\ ride.status = "FULL"
  /\ now >= closeAfter(ride)
  /\ "rides" \in DOMAIN res
  /\ \E k \in 1..Len(res.rides) : res.rides[k] = ride

(* The position of a ride in the result of the my-rides query in flight. *)
resultIndex(id) == {k \in 1..Len(reading.ids) : reading.ids[k] = id}

(* C23: a save() of the reaper of a my-rides read leaves every field but   *)
(* status of every ride as stored, a seat count written since the query    *)
(* included, and changes the status only of a ride of the result that the  *)
(* query found OPEN with dateTime + 6 hours elapsed, to CLOSED.            *)
C23_ReaperFrame ==
  [][postFind =>
       \A id \in {"ride", "other"} :
         IF exists(stored(id))
           THEN /\ guardedFields(stored(id)') = guardedFields(stored(id))
                /\ stored(id)'.status # stored(id).status =>
                     /\ stored(id)'.status = "CLOSED"
                     /\ \E k \in resultIndex(id) :
                           /\ reading.docs[k].status = "CLOSED"
                           /\ now >= closeAfter(reading.docs[k])
           ELSE stored(id)' = stored(id)]_vars

(* A my-rides read has answered with the ride as it found it, closed by    *)
(* its hook, and the store holds the ride CLOSED with the seat an accept   *)
(* took between the query and the hook's save().                           *)
C23_Witness ==
  /\ reading = NoRead
  /\ "rides" \in DOMAIN res
  /\ ride.status = "CLOSED"
  /\ \E k \in 1..Len(res.rides) :
        /\ res.rides[k].creatorId = ride.creatorId
        /\ res.rides[k].status = "CLOSED"
        /\ res.rides[k].availableSeats = ride.availableSeats + 1

(* The gate of the chat: the toggle of the ride is on and the actor is its *)
(* creator, has a request pending or is confirmed.                         *)
canAccess(doc, u) ==
  /\ doc.allowChat
  /\ u = doc.creatorId \/ includes(doc.requests, u) \/ includes(doc.confirmedUsers, u)

(* C24: sendMessage on a chat not past its retention answers 201 and       *)
(* appends the message to the log when the ride exists, its allowChat is   *)
(* true and the actor is the creator, in requests or in confirmedUsers;    *)
(* otherwise it is refused and the log is unchanged.                       *)
C24_SendMessageGate ==
  [][\A u \in Chatters :
       (sendMessage(u) /\ ~chatExpired(chat, now)) =>
         IF exists(ride) /\ canAccess(ride, u)
           THEN /\ res' = MessageSent
                /\ chat'.messages = Append(chat.messages, u)
           ELSE /\ res'.status \in {403, 404}
                /\ chat' = chat]_vars

(* A rider sent a message while the request was pending and, the request   *)
(* since rejected or cancelled, has just been refused.                     *)
C24_Witness ==
  /\ exists(ride)
  /\ ride.allowChat
  /\ includes(chat.messages, "u2")
  /\ ~includes(members(ride), "u2")
  /\ res = NotPartOfRide

(* C25: listMessages answers with the log only when the ride's allowChat   *)
(* is true and the actor is the creator, in requests or in confirmedUsers. *)
C25_ListMessagesGate ==
  [][\A u \in Chatters :
       (listMessages(u) /\ res'.status = 200) =>
         exists(ride) /\ canAccess(ride, u)]_vars

(* C26: a chat:join of an actor the gate refuses is answered with an error *)
(* event and leaves the room as it was, whatever NODE_ENV is.              *)
C26_JoinGate ==
  [][\A u \in Chatters :
       (chatJoin(u) /\ ~(exists(ride) /\ canAccess(ride, u))) =>
         /\ res'.event = "error"
         /\ room' = room]_vars

(* C27: a chat:send reaches the sockets of the room only if the sender has *)
(* joined the room and passes the gate.                                    *)
C27_SendNeedsJoin ==
  [][\A u \in Chatters :
       (chatSend(u) /\ room # {} /\ res' = ChatNew(u, room)) =>
         u \in room /\ canAccess(ride, u)]_vars

(* C28: for every ride and actor, sendMessage, listMessages, chat:join and *)
(* chat:send all decide as canAccess does.                                 *)
C28_SameDecision ==
  exists(ride) =>
    \A u \in Chatters :
      LET doc == postFindOne(ride, now)
          user == protect(u)
          d == canAccess(ride, u)
      IN /\ (sendMessageBody(doc, user) = MessageSent) = d
         /\ (listMessagesBody(ride, user, chat).status = 200) = d
         /\ (chatJoinBody(doc, user) = Joined) = d
         /\ (chatSendBody(doc, user) = ChatNew(u, room)) = d

(* C29: every socket a chat:new is emitted to belongs to an actor who      *)
(* passes the gate at that moment.                                         *)
C29_RecipientsPassGate ==
  [][\A u \in Chatters :
       (chatSend(u) /\ res' = ChatNew(u, room)) =>
         \A r \in room : canAccess(ride, r)]_vars

(* C30: no actor of another college is in requests, in confirmedUsers or   *)
(* in the room of the ride.                                                *)
C30_NoCrossRealm ==
  exists(ride) =>
    \A u \in Users :
      college_id[u] # ride.creatorCollegeId =>
        /\ ~includes(ride.requests, u)
        /\ ~includes(ride.confirmedUsers, u)
        /\ u \notin room

(* C31: a ride detail read of the chat that returns the ride when the      *)
(* lookup of the participants' names works returns it as well when that    *)
(* lookup fails.                                                           *)
C31_LookupFailureKeepsRide ==
  [][\A u \in Chatters :
       (/\ chatGetRideDetails(u, FALSE)
        /\ chatGetRideDetailsBody(ride, protect(u), TRUE) = Found(<<ride>>)) =>
         res' = Found(<<ride>>)]_vars

(* C32: the ride a write that reports success leaves is one the calls can  *)
(* produce when applied one at a time, in which every actor is listed at   *)
(* most once over requests and confirmedUsers.                             *)
C32_SuccessIsSerial ==
  [][\A p \in Procs :
       (handlerSave(p) /\ res' = successCode(procs[p].req)) =>
         \A u \in Users :
           count(ride'.requests, u) + count(ride'.confirmedUsers, u) <= 1]_vars

(* C33: a chat:send leaves the stored chat log of the ride as it was,      *)
(* whether or not the message is emitted to the room: no step that changes *)
(* the log is a chat:send.                                                 *)
C33_SendKeepsLog ==
  [][chat' # chat => \A u \in Chatters : ~chatSend(u)]_vars

(* A message has been emitted to a socket of the room and no log exists. *)
C33_Witness ==
  /\ room # {}
  /\ \E u \in Chatters : res = ChatNew(u, room)
  /\ chat = NoChat

(* C34: requestRide on a ride whose preferredGender is Male or Female, by  *)
(* an actor whose declared gender equals it ignoring case and who meets    *)
(* every other precondition, succeeds and adds the actor to requests.      *)
C34_MatchingGenderAccepted ==
  [][\A u \in Users :
       (/\ reachesGenderCheck(u)
        /\ ride.preferredGender # "Any"
        /\ toLowerCase(ride.preferredGender) = toLowerCase(gender[u])
        /\ requestRide(u))
       => /\ res' = RequestSent
          /\ includes(ride'.requests, u)]_vars

(* C35: a requestRide that finds the ride OPEN with dateTime + 6 hours     *)
(* elapsed closes it and adds nobody to requests, and an actor of the      *)
(* ride's college is answered InvalidState; this holds when the handler    *)
(* runs in one piece and when it resumes after the hook's save().          *)
C35_StaleRequestRejected ==
  [][/\ \A u \in Riders \cup Creators :
          (exists(ride) /\ isStale(ride, now) /\ requestRide(u)) =>
            /\ ride'.status = "CLOSED"
            /\ ride'.requests = ride.requests
            /\ protect(u).collegeId = ride.creatorCollegeId => res' = InvalidState
     /\ \A p \in Procs :
          (procs[p].pc = "hook" /\ procs[p].req.op = "requestRide" /\ hookSave(p)) =>
            /\ ride'.status = "CLOSED"
            /\ ride'.requests = ride.requests
            /\ procs'[p] = IdleProc
            /\ res' = InvalidState]_vars

(* A requestRide has fetched a stale ride: the document it holds is        *)
(* CLOSED and the hook's save() of the stored ride is pending.             *)
C35_Witness ==
  \E p \in Procs :
    /\ procs[p].pc = "hook"
    /\ procs[p].req.op = "requestRide"
    /\ procs[p].doc.status = "CLOSED"
    /\ ride.status = "OPEN"

(* C36: the records a my-rides read holds for the rides its hook closes    *)
(* carry status CLOSED, and they are the records it answers with when the  *)
(* hook's last save() has resolved.                                        *)
C36_ReadReturnsClosed ==
  [][/\ reading' # reading /\ reading' # NoRead /\ reading = NoRead =>
          \A k \in 1..Len(reading'.ids) :
            isStale(stored(reading'.ids[k]), now) => reading'.docs[k].status = "CLOSED"
     /\ reading' = NoRead /\ reading # NoRead => res' = Found(reading.docs)]_vars

(* A my-rides read is in flight: the record it holds for the ride is       *)
(* CLOSED while the hook's save() of the stored ride, still OPEN, is       *)
(* pending.                                                                *)
C36_Witness ==
  /\ reading # NoRead
  /\ \E k \in 1..Len(reading.ids) :
       /\ reading.ids[k] = "ride"
       /\ reading.docs[k].status = "CLOSED"
       /\ ride.status = "OPEN"

(* C37: the save() of an accept leaves a ride that is stored as CLOSED     *)
(* with status CLOSED, whether the accept fetched the ride before or after *)
(* the close.                                                              *)
C37_LateAcceptKeepsClosed ==
  [][\A p \in Procs :
       (/\ procs[p].pc = "save"
        /\ isAccept(procs[p].req)
        /\ exists(ride)
        /\ ride.status = "CLOSED"
        /\ handlerSave(p)) =>
         ride'.status = "CLOSED"]_vars

(* C38: in every reachable state expiresAt is dateTime + 30 days when      *)
(* somebody is confirmed and dateTime + 7 days otherwise, also when a      *)
(* reschedule and an accept of the same ride overlap.                      *)
C38_RetentionInvariant ==
  exists(ride) => ride.expiresAt = ride.dateTime + retentionRule(ride)

(* C39: in every reachable state, concurrent handlers included, a FULL     *)
(* ride has no seat left and an OPEN ride has at least one.                *)
C39_StatusMatchesSeats ==
  exists(ride) =>
    /\ ride.status = "FULL" => ride.availableSeats = 0
    /\ ride.status = "OPEN" => ride.availableSeats >= 1

(* The accept of the last seat has made the ride FULL while a second       *)
(* accept, which read the same seat, has its save() pending.               *)
C39_Witness ==
  /\ exists(ride)
  /\ ride.status = "FULL"
  /\ ride.availableSeats = 0
  /\ res = Confirmed
  /\ \E p \in Procs : procs[p].pc = "save" /\ isAccept(procs[p].req)

(* C40: in every reachable state, sendMessage calls that overlap included, *)
(* the ride has one chat log at most, so that no message reported as sent  *)
(* is in a log that listMessages does not read.                            *)
C40_OneChatLog ==
  /\ ~(chat.exists /\ chat2.exists)
  /\ chat2.messages = << >>

====
